---- MODULE Spec2Model ----
(***************************************************************************)
(* Model of src/main.py: the CDDIS IGS precise-ephemeris downloader.        *)
(*                                                                         *)
(* The program is one sequential thread: setup() opens the FTPS session    *)
(* (connect, login, prot_p), main() changes into gnss/products, reads the  *)
(* list of GNSS weeks and, per week, enters the week directory, lists it,  *)
(* filters the listing with fnmatch, retrieves every match and goes back   *)
(* to the parent directory; any exception inside one week is caught by the *)
(* except clause of the loop. After the loop the session is quit.          *)
(*                                                                         *)
(* Every remote or local operation that can raise is one action with a     *)
(* nondeterministic outcome. File names are sequences of one-character     *)
(* strings so that the wildcard match is computed, not assumed.            *)
(***************************************************************************)
EXTENDS Integers, Sequences, FiniteSets, TLC

VARIABLES
    platform,           \* os.name of the interpreter running main.py
    remote,             \* the archive: week directory name -> listing
    pc,                 \* position of the single thread of control
    loggedIn,           \* ftps.login() has succeeded
    prot,               \* ftps.prot_p() has succeeded
    rcwd,               \* remote working directory of the session (a path)
    gnss_weeks,         \* main(): the week tokens read from the user
    weekIdx,            \* main(): number of loop iterations started
    all_files,          \* find_files(): the listing nlst() returned
    files_to_download,  \* download_week(): the filtered listing
    fileIdx,            \* download_week(): number of files completed
    local,              \* local working directory: name -> file written
    enterLog,           \* history: argument of every cwd(gnss_week) issued
    weekStat,           \* history: per loop iteration, what was issued
    attempted,          \* history: download_file() calls of this iteration
    lastOp,             \* history: the last remote operation issued
    quitCalls,          \* history: number of ftps.quit() calls
    refiltered          \* result of filtering files_to_download again

vars == <<platform, remote, pc, loggedIn, prot, rcwd, gnss_weeks, weekIdx,
          all_files, files_to_download, fileIdx, local, enterLog, weekStat,
          attempted, lastOp, quitCalls, refiltered>>

----------------------------------------------------------------------------
(* Bounds of the model.                                                    *)

MaxWeeks == 2

MaxFiles == 2

MaxListing == 2

BoundedSeq(S, n) == UNION {[1..k -> S] : k \in 0..n}

----------------------------------------------------------------------------
(* File names and the wildcard match of find_files().                      *)

Prefix == <<"I", "G", "S", "0", "O", "P", "S", "F", "I", "N">>

Suffix == <<"O", "R", "B", ".", "S", "P", "3", ".", "g", "z">>

search_term == Prefix \o <<"*">> \o Suffix

UpperCase == <<"A", "B", "C", "D", "E", "F", "G", "H", "I", "J", "K", "L", "M",
               "N", "O", "P", "Q", "R", "S", "T", "U", "V", "W", "X", "Y", "Z">>

LowerCase == <<"a", "b", "c", "d", "e", "f", "g", "h", "i", "j", "k", "l", "m",
               "n", "o", "p", "q", "r", "s", "t", "u", "v", "w", "x", "y", "z">>

Lower(c) ==
    IF \E i \in 1..Len(UpperCase) : UpperCase[i] = c
    THEN LowerCase[CHOOSE i \in 1..Len(UpperCase) : UpperCase[i] = c]
    ELSE c

LowerSeq(s) == [i \in 1..Len(s) |-> Lower(s[i])]

Platforms == {"posix", "nt"}

\* os.path.normcase: the identity on posix; on nt it lower-cases the string
\* and turns every "/" into "\".
normcase(s) ==
    IF platform = "nt"
    THEN [i \in 1..Len(s) |-> IF s[i] = "/" THEN "\\" ELSE Lower(s[i])]
    ELSE s

RECURSIVE GlobFrom(_, _, _, _)
\* name[i..] matches pat[j..], where "*" stands for any run of characters,
\* "?" for any one character and every other character for itself.
GlobFrom(name, pat, i, j) ==
    IF j > Len(pat) THEN i > Len(name)
    ELSE IF pat[j] = "*"
         THEN \/ GlobFrom(name, pat, i, j + 1)
              \/ i <= Len(name) /\ GlobFrom(name, pat, i + 1, j)
    ELSE IF pat[j] = "?"
         THEN i <= Len(name) /\ GlobFrom(name, pat, i + 1, j + 1)
    ELSE i <= Len(name) /\ name[i] = pat[j] /\ GlobFrom(name, pat, i + 1, j + 1)

fnmatchcase(name, pat) == GlobFrom(name, pat, 1, 1)

fnmatch(name, pat) == fnmatchcase(normcase(name), normcase(pat))

RECURSIVE FilterLoop(_, _, _)
\* The loop of find_files(): files_found after the entries from position k on
\* have been visited.
FilterLoop(listing, k, files_found) ==
    IF k > Len(listing) THEN files_found
    ELSE FilterLoop(listing, k + 1,
                    IF fnmatch(listing[k], search_term)
                    THEN Append(files_found, listing[k])
                    ELSE files_found)

find_files(listing) == FilterLoop(listing, 1, <<>>)

----------------------------------------------------------------------------
(* The archive: the remote directory tree and what it holds.               *)

ProductsRoot == <<"gnss", "products">>

RemoteWeeks == {"2191", "2192"}

\* "2190" names no directory of the archive.
WeekTokens == {"2190", "2191", "2192", ".."}

WeekDir(w) == Append(ProductsRoot, w)

RemoteDirs == {<<>>, <<"gnss">>, ProductsRoot} \cup {WeekDir(w) : w \in RemoteWeeks}

NameFinal == Prefix \o <<"_", "1", "_">> \o Suffix

NameNext == Prefix \o <<"_", "2", "_">> \o Suffix

NameLower == LowerSeq(NameFinal)

ArchiveNames == {NameFinal, NameNext, NameLower}

\* Week 2191 holds any listing over ArchiveNames; week 2192 holds the one
\* file NameFinal (a second file of the same name as one of week 2191).
Archives ==
    {[w \in RemoteWeeks |-> IF w = "2191" THEN l ELSE <<NameFinal>>] :
        l \in BoundedSeq(ArchiveNames, MaxFiles)}

\* What NLST returns in directory dir: the files of a week directory, and the
\* subdirectory names elsewhere.
ListingAt(dir) ==
    IF \E w \in RemoteWeeks : dir = WeekDir(w)
    THEN remote[dir[Len(dir)]]
    ELSE IF dir = ProductsRoot THEN <<<<"2", "1", "9", "1">>, <<"2", "1", "9", "2">>>>
    ELSE IF dir = <<"gnss">> THEN <<<<"p", "r", "o", "d", "u", "c", "t", "s">>>>
    ELSE <<<<"g", "n", "s", "s">>>>

RECURSIVE Resolve(_, _)
\* The directory a CWD with path components comps leads to from dir.
Resolve(dir, comps) ==
    IF comps = <<>> THEN dir
    ELSE LET c == Head(comps)
             d == IF c = ".."
                  THEN (IF dir = <<>> THEN dir ELSE SubSeq(dir, 1, Len(dir) - 1))
                  ELSE Append(dir, c)
         IN  Resolve(d, Tail(comps))

\* The outcomes a CWD can have: it can always fail, and it can succeed when
\* the target exists.
CwdOutcomes(dir, comps) ==
    IF Resolve(dir, comps) \in RemoteDirs THEN {TRUE, FALSE} ELSE {FALSE}

----------------------------------------------------------------------------
(* Control flow of main().                                                 *)

\* An exception raised in setup() or by the first cwd is not caught.
OnSetupExceptionSwallowed == "SessionOpen"

OnSetupException == "Aborted"

\* An exception raised in the try block is caught by the except clause, which
\* prints and falls through to the next iteration of the for loop.
OnExceptionReraise == "Aborted"

OnException == "Loop"

\* download_week() has no handler of its own: an exception of download_file()
\* leaves its for loop and reaches the except clause of main().
OnTransferErrorContinue == "Retrieving"

OnTransferError == OnException

\* The for loop of main() is over when every token has been taken.
LoopDoneEarly(idx, weeks) == idx >= 1 \/ idx >= Len(weeks)

LoopDone(idx, weeks) == idx >= Len(weeks)

WeekAt(weeks, i) == weeks[i]

FileAtReversed(files, k) == files[Len(files) + 1 - k]

FileAt(files, k) == files[k]

NoOp == [kind |-> "none", week |-> 0, pos |-> 0]

Op(kind, week, pos) == [kind |-> kind, week |-> week, pos |-> pos]

NewStat ==
    [enters |-> 0, entered |-> FALSE, dir |-> <<>>, leaves |-> 0, outcome |-> "pending"]

WriteLocal(loc, name, file) ==
    [n \in DOMAIN loc \cup {name} |-> IF n = name THEN file ELSE loc[n]]

Init ==
    /\ platform \in Platforms
    /\ remote \in Archives
    /\ pc = "Idle"
    /\ loggedIn = FALSE
    /\ prot = FALSE
    /\ rcwd = <<>>
    /\ gnss_weeks = <<>>
    /\ weekIdx = 0
    /\ all_files = <<>>
    /\ files_to_download = <<>>
    /\ fileIdx = 0
    /\ local = <<>>
    /\ enterLog = <<>>
    /\ weekStat = <<>>
    /\ attempted = <<>>
    /\ lastOp = NoOp
    /\ quitCalls = 0
    /\ refiltered = <<>>

\* login(): ftps = FTP_TLS(host=...) opens the control connection.
Connect ==
    /\ pc = "Idle"
    /\ \E ok \in BOOLEAN : pc' = IF ok THEN "Connected" ELSE OnSetupException
    /\ UNCHANGED <<platform, remote, loggedIn, prot, rcwd, gnss_weeks, weekIdx,
                   all_files, files_to_download, fileIdx, local, enterLog,
                   weekStat, attempted, lastOp, quitCalls, refiltered>>

\* login(): ftps.login(user='anonymous', passwd=ftp_password).
Login ==
    /\ pc = "Connected"
    /\ \E ok \in BOOLEAN :
          /\ loggedIn' = ok
          /\ pc' = IF ok THEN "Authenticated" ELSE OnSetupException
    /\ UNCHANGED <<platform, remote, prot, rcwd, gnss_weeks, weekIdx,
                   all_files, files_to_download, fileIdx, local, enterLog,
                   weekStat, attempted, lastOp, quitCalls, refiltered>>

\* login(): ftps.prot_p(); setup() then returns the session to main().
ProtP ==
    /\ pc = "Authenticated"
    /\ \E ok \in BOOLEAN :
          /\ prot' = ok
          /\ pc' = IF ok THEN "SessionOpen" ELSE OnSetupException
    /\ UNCHANGED <<platform, remote, loggedIn, rcwd, gnss_weeks, weekIdx,
                   all_files, files_to_download, fileIdx, local, enterLog,
                   weekStat, attempted, lastOp, quitCalls, refiltered>>

\* main(): print(ftps.cwd(r"gnss/products")), outside any try.
CwdProducts ==
    /\ pc = "SessionOpen"
    /\ lastOp' = Op("cwd_root", 0, 0)
    /\ \E ok \in CwdOutcomes(rcwd, ProductsRoot) :
          IF ok
          THEN rcwd' = Resolve(rcwd, ProductsRoot) /\ pc' = "ReadWeeks"
          ELSE rcwd' = rcwd /\ pc' = "Aborted"
    /\ UNCHANGED <<platform, remote, loggedIn, prot, gnss_weeks, weekIdx,
                   all_files, files_to_download, fileIdx, local, enterLog,
                   weekStat, attempted, quitCalls, refiltered>>

\* main(): gnss_weeks = input(...).split() - whitespace-free, non-empty tokens.
ReadWeeks ==
    /\ pc = "ReadWeeks"
    /\ gnss_weeks' \in BoundedSeq(WeekTokens, MaxWeeks)
    /\ weekStat' = [i \in 1..Len(gnss_weeks') |-> NewStat]
    /\ pc' = "Loop"
    /\ UNCHANGED <<platform, remote, loggedIn, prot, rcwd, weekIdx, all_files,
                   files_to_download, fileIdx, local, enterLog, attempted,
                   lastOp, quitCalls, refiltered>>

\* main(): the for loop takes the next token and the try block starts with
\* ftps.cwd(gnss_week).
EnterWeek ==
    /\ pc = "Loop"
    /\ ~LoopDone(weekIdx, gnss_weeks)
    /\ LET i == weekIdx + 1
           gnss_week == WeekAt(gnss_weeks, i)
       IN  /\ weekIdx' = i
           /\ enterLog' = Append(enterLog, gnss_week)
           /\ lastOp' = Op("enter", i, 0)
           /\ all_files' = <<>>
           /\ files_to_download' = <<>>
           /\ fileIdx' = 0
           /\ attempted' = <<>>
           /\ \E ok \in CwdOutcomes(rcwd, <<gnss_week>>) :
                 IF ok
                 THEN /\ rcwd' = Resolve(rcwd, <<gnss_week>>)
                      /\ weekStat' = [weekStat EXCEPT
                             ![i].enters = @ + 1, ![i].entered = TRUE,
                             ![i].dir = Resolve(rcwd, <<gnss_week>>)]
                      /\ pc' = "Matching"
                 ELSE /\ rcwd' = rcwd
                      /\ weekStat' = [weekStat EXCEPT
                             ![i].enters = @ + 1, ![i].outcome = "enter"]
                      /\ pc' = OnException
    /\ UNCHANGED <<platform, remote, loggedIn, prot, gnss_weeks, local,
                   quitCalls, refiltered>>

\* download_week() -> find_files(): all_files = ftps_server.nlst(), then the
\* filter loop.
ListFiles ==
    /\ pc = "Matching"
    /\ lastOp' = Op("nlst", weekIdx, 0)
    /\ \E ok \in BOOLEAN :
          IF ok
          THEN /\ all_files' = ListingAt(rcwd)
               /\ files_to_download' = find_files(ListingAt(rcwd))
               /\ weekStat' = weekStat
               /\ pc' = "Retrieving"
          ELSE /\ UNCHANGED <<all_files, files_to_download>>
               /\ weekStat' = [weekStat EXCEPT ![weekIdx].outcome = "nlst"]
               /\ pc' = OnException
    /\ UNCHANGED <<platform, remote, loggedIn, prot, rcwd, gnss_weeks, weekIdx,
                   fileIdx, local, enterLog, attempted, quitCalls, refiltered>>

\* download_week(): one iteration of "for file in files_to_download", that is
\* one call of download_file(): open(file_name, "wb"), then retrbinary.
DownloadFile ==
    /\ pc = "Retrieving"
    /\ fileIdx < Len(files_to_download)
    /\ LET k == fileIdx + 1
           file == FileAt(files_to_download, k)
       IN  /\ fileIdx' = k
           /\ attempted' = Append(attempted, file)
           /\ \E outcome \in {"ok", "open", "retr"} :
                 /\ lastOp' = IF outcome = "open" THEN lastOp
                              ELSE Op("retr", weekIdx, k)
                 /\ local' = IF outcome = "open" THEN local
                             ELSE WriteLocal(local, file,
                                      [src |-> rcwd, full |-> outcome = "ok"])
                 /\ weekStat' = IF outcome = "ok" THEN weekStat
                                ELSE [weekStat EXCEPT ![weekIdx].outcome = outcome]
                 /\ pc' = IF outcome = "ok" THEN "Retrieving" ELSE OnTransferError
    /\ UNCHANGED <<platform, remote, loggedIn, prot, rcwd, gnss_weeks, weekIdx,
                   all_files, files_to_download, enterLog, quitCalls, refiltered>>

\* main(): ftps.cwd("..") after download_week() has returned.
LeaveWeek ==
    /\ pc = "Retrieving"
    /\ fileIdx >= Len(files_to_download)
    /\ lastOp' = Op("leave", weekIdx, 0)
    /\ \E ok \in CwdOutcomes(rcwd, <<"..">>) :
          IF ok
          THEN /\ rcwd' = Resolve(rcwd, <<"..">>)
               /\ weekStat' = [weekStat EXCEPT
                      ![weekIdx].leaves = @ + 1, ![weekIdx].outcome = "ok"]
               /\ pc' = "Loop"
          ELSE /\ rcwd' = rcwd
               /\ weekStat' = [weekStat EXCEPT
                      ![weekIdx].leaves = @ + 1, ![weekIdx].outcome = "leave"]
               /\ pc' = OnException
    /\ UNCHANGED <<platform, remote, loggedIn, prot, gnss_weeks, weekIdx,
                   all_files, files_to_download, fileIdx, local, enterLog,
                   attempted, quitCalls, refiltered>>

\* main(): after the loop, ftps.quit().
Quit ==
    /\ pc = "Loop"
    /\ LoopDone(weekIdx, gnss_weeks)
    /\ quitCalls' = quitCalls + 1
    /\ lastOp' = Op("quit", weekIdx, 0)
    /\ pc' = "SessionClosed"
    /\ UNCHANGED <<platform, remote, loggedIn, prot, rcwd, gnss_weeks, weekIdx,
                   all_files, files_to_download, fileIdx, local, enterLog,
                   weekStat, attempted, refiltered>>

Next ==
    \/ Connect
    \/ Login
    \/ ProtP
    \/ CwdProducts
    \/ ReadWeeks
    \/ EnterWeek
    \/ ListFiles
    \/ DownloadFile
    \/ LeaveWeek
    \/ Quit

Spec == Init /\ [][Next]_vars

\* The thread is never suspended: a step that can be taken is taken.
FairSpec == Spec /\ WF_vars(Next)

----------------------------------------------------------------------------
(* find_files() on its own: the filter applied to a listing, and applied    *)
(* again to its own result.                                                *)

Heads == {Prefix, LowerSeq(Prefix), SubSeq(Prefix, 1, Len(Prefix) - 1),
          <<"X">> \o Prefix}

Mids == {<<>>, <<"_", "1", "_">>}

Tails == {Suffix, <<"O", "R", "B", ".", "S", "P", "3", ".", "G", "Z">>,
          Suffix \o <<"x">>, SubSeq(Suffix, 2, Len(Suffix))}

ProbeNames == {h \o m \o t : h \in Heads, m \in Mids, t \in Tails}

InitMatch ==
    /\ platform \in Platforms
    /\ remote = [w \in RemoteWeeks |-> <<>>]
    /\ pc = "find"
    /\ loggedIn = TRUE
    /\ prot = TRUE
    /\ rcwd = WeekDir("2191")
    /\ gnss_weeks = <<"2191">>
    /\ weekIdx = 1
    /\ all_files \in BoundedSeq(ProbeNames, MaxListing)
    /\ files_to_download = <<>>
    /\ fileIdx = 0
    /\ local = <<>>
    /\ enterLog = <<"2191">>
    /\ weekStat = <<NewStat>>
    /\ attempted = <<>>
    /\ lastOp = Op("nlst", 1, 0)
    /\ quitCalls = 0
    /\ refiltered = <<>>

Filter ==
    /\ pc = "find"
    /\ files_to_download' = find_files(all_files)
    /\ pc' = "found"
    /\ UNCHANGED <<platform, remote, loggedIn, prot, rcwd, gnss_weeks, weekIdx,
                   all_files, fileIdx, local, enterLog, weekStat, attempted,
                   lastOp, quitCalls, refiltered>>

FilterAgain ==
    /\ pc = "found"
    /\ refiltered' = find_files(files_to_download)
    /\ pc' = "refiltered"
    /\ UNCHANGED <<platform, remote, loggedIn, prot, rcwd, gnss_weeks, weekIdx,
                   all_files, files_to_download, fileIdx, local, enterLog,
                   weekStat, attempted, lastOp, quitCalls>>

NextMatch == Filter \/ FilterAgain

SpecMatch == InitMatch /\ [][NextMatch]_vars

----------------------------------------------------------------------------
(* The properties.                                                         *)

StartsWith(name, p) == Len(name) >= Len(p) /\ SubSeq(name, 1, Len(p)) = p

EndsWith(name, q) ==
    Len(name) >= Len(q) /\ SubSeq(name, Len(name) - Len(q) + 1, Len(name)) = q

\* The match set as the specification words it: the names that start with
\* IGS0OPSFIN and end with ORB.SP3.gz, compared character by character.
InMatchSet(name) == StartsWith(name, Prefix) /\ EndsWith(name, Suffix)

MatchSet(listing) == {listing[k] : k \in {j \in 1..Len(listing) : InMatchSet(listing[j])}}

RECURSIVE IsSubsequence(_, _)
\* s can be obtained from t by deleting entries, the order kept.
IsSubsequence(s, t) ==
    IF s = <<>> THEN TRUE
    ELSE IF t = <<>> THEN FALSE
    ELSE IF Head(s) = Head(t) THEN IsSubsequence(Tail(s), Tail(t))
    ELSE IsSubsequence(s, Tail(t))

Terminated == pc \in {"SessionClosed", "Aborted"}

\* The loop iteration for token i is over.
WeekOver(i) == i < weekIdx \/ (i = weekIdx /\ (pc = "Loop" \/ Terminated))

\* C1: every token whose loop iteration is over had exactly one enter, and
\* exactly one leave if the enter succeeded (whatever happened afterwards in
\* that week), and no leave if the enter failed.
C1_EnterLeavePaired ==
    \A i \in 1..Len(weekStat) :
        WeekOver(i) =>
            /\ weekStat[i].enters = 1
            /\ weekStat[i].leaves = IF weekStat[i].entered THEN 1 ELSE 0

\* C2: the arguments of the enters issued so far are the tokens supplied, in
\* order, and a run never ends before an enter was issued for every token,
\* whatever failed in the earlier weeks.
C2_EveryWeekAttempted ==
    /\ enterLog = SubSeq(gnss_weeks, 1, weekIdx)
    /\ Terminated =>
          /\ weekIdx = Len(gnss_weeks)
          /\ \A i \in 1..Len(weekStat) : weekStat[i].enters = 1

C2_Witness ==
    /\ pc = "SessionClosed"
    /\ Len(gnss_weeks) = 2
    /\ weekStat[1].outcome = "retr"
    /\ weekStat[2].outcome = "enter"

C4_FilterExact ==
    /\ pc \in {"found", "refiltered"} =>
          files_to_download = SelectSeq(all_files, InMatchSet)
    /\ pc = "refiltered" => refiltered = files_to_download

\* C5: when the run is over and nothing has failed, every name in the match
\* set of every requested week is a local file holding that remote file in
\* full, no other local file was written, and quit was called.
C5_AllMatchesDownloaded ==
    (pc = "SessionClosed" /\ \A i \in 1..Len(weekStat) : weekStat[i].outcome = "ok") =>
        /\ \A i \in 1..Len(weekStat) :
              \A n \in MatchSet(ListingAt(weekStat[i].dir)) :
                  /\ n \in DOMAIN local
                  /\ local[n] = [src |-> weekStat[i].dir, full |-> TRUE]
        /\ \A n \in DOMAIN local :
              \E i \in 1..Len(weekStat) : n \in MatchSet(ListingAt(weekStat[i].dir))
        /\ quitCalls = 1

C7_ClosedOnEveryExit ==
    (Terminated /\ loggedIn /\ prot) => quitCalls = 1

OpPhase(o) ==
    CASE o.kind = "none" -> 0
      [] o.kind = "cwd_root" -> 1
      [] o.kind = "enter" -> 2
      [] o.kind = "nlst" -> 3
      [] o.kind = "retr" -> 4
      [] o.kind = "leave" -> 5
      [] o.kind = "quit" -> 6

OpBefore(a, b) ==
    \/ a.week < b.week
    \/ a.week = b.week /\ OpPhase(a) < OpPhase(b)
    \/ a.week = b.week /\ OpPhase(a) = OpPhase(b) /\ a.pos < b.pos

\* C8: enters are issued for the tokens in the order supplied; the files
\* attempted in a week are, in order, the first matches of the listing; and
\* every remote operation comes later in the order (week, enter < list <
\* retrievals by position < leave) than the one before it.
C8_Order ==
    /\ [](/\ enterLog = SubSeq(gnss_weeks, 1, weekIdx)
          /\ IsSubsequence(files_to_download, all_files)
          /\ attempted = SubSeq(files_to_download, 1, Len(attempted)))
    /\ [][lastOp' # lastOp => OpBefore(lastOp, lastOp')]_vars

C8_Witness ==
    /\ pc = "Loop"
    /\ weekIdx = 2
    /\ gnss_weeks[1] # gnss_weeks[2]
    /\ Len(all_files) = 2
    /\ Len(attempted) = 2
    /\ attempted[1] # attempted[2]
    /\ lastOp.kind = "leave"

\* C9: no remote operation after the session setup (change of directory,
\* listing, retrieval, quit) and no local file before login and prot_p have
\* both succeeded; a run that ends with login or prot_p failed has issued
\* none.
C9_ProtBeforeData ==
    /\ lastOp.kind # "none" => loggedIn /\ prot
    /\ (DOMAIN local # {} \/ rcwd # <<>>) => loggedIn /\ prot
    /\ (Terminated /\ ~(loggedIn /\ prot)) =>
          lastOp.kind = "none" /\ pc = "Aborted"

C9_Witness ==
    /\ lastOp.kind = "retr"
    /\ prot
    /\ DOMAIN local # {}

\* C10: whenever the loop is about to take the next token or to quit, the
\* remote working directory is gnss/products.
C10_AtRootEachIteration ==
    pc = "Loop" => rcwd = ProductsRoot

====
